---------------------------- MODULE Spec2Model ----------------------------
(***************************************************************************)
(* A model of the schedule-interpretation functions of weekly-messaging:   *)
(* split_by_part_ll_reset, the due-date resolvers, generate_monday_message,*)
(* render_end_of_livelab_reminders and generate_friday_messages.           *)
(*                                                                         *)
(* Values.  A text cell is a sequence of one-character strings; an empty   *)
(* cell (None / NaN) is NoVal.  A date is a day number, day 0 a Monday; an *)
(* absent date is NaT.  A numeric cell that is absent is NaN.              *)
(***************************************************************************)
EXTENDS Integers, Sequences, FiniteSets, TLC

VARIABLES
    pc,                      \* which call is pending or has returned
    args,                    \* the arguments of the call
    frame,                   \* the call's local variables when it returned
    ret,                     \* what the call returned or emitted
    hist,                    \* what the first invocation on this input returned
    PROJECT_DUE_DATES,       \* utils.edits: the override table, in dict order
    MILESTONE_DUE_DAYS,      \* utils.edits: section code -> weekday names
    LAB_TITLE_NORMALIZATION  \* config: the title alias table, in dict order

vars == <<pc, args, frame, ret, hist,
          PROJECT_DUE_DATES, MILESTONE_DUE_DAYS, LAB_TITLE_NORMALIZATION>>

-----------------------------------------------------------------------------
(* Bounds of the model.                                                    *)

MaxRows == 3        \* rows of a schedule table drawn freely
MaxParts == 3       \* max_parts ranges over 1..MaxParts
MaxDate == 1        \* the segmenter's dates range over 0..MaxDate and NaT
MaxOverrides == 2   \* entries of the override table
MaxDays == 2        \* weekday names in a section's due-days list
MaxDigestRows == 2  \* rows of the table handed to the weekly digest
MaxSchedRows == 3   \* rows of the table handed to the reminders and the recap
MaxOrdinalDate == 60 \* add_ordinal_suffix is called on the days 0..MaxOrdinalDate
MaxReference == 13  \* the recap's reference datetimes range over 0..MaxReference

-----------------------------------------------------------------------------
(* Absent values.                                                          *)

NoVal == <<"<NA>">>
NaT == -1
NaN == -1
None == {}              \* a local that is None; a value v it holds is {v}

Min(S) == CHOOSE x \in S : \A y \in S : x <= y
Max(S) == CHOOSE x \in S : \A y \in S : x >= y

-----------------------------------------------------------------------------
(* Python str operations on character sequences.                           *)

UpperCase == <<"A","B","C","D","E","F","G","H","I","J","K","L","M",
               "N","O","P","Q","R","S","T","U","V","W","X","Y","Z">>
LowerCase == <<"a","b","c","d","e","f","g","h","i","j","k","l","m",
               "n","o","p","q","r","s","t","u","v","w","x","y","z">>
Digits == <<"0","1","2","3","4","5","6","7","8","9">>
Whitespace == {" ", "\t", "\n"}

\* str.lower() on one character.
LowerChar(c) ==
    IF \E i \in 1..Len(UpperCase) : UpperCase[i] = c
    THEN LowerCase[CHOOSE i \in 1..Len(UpperCase) : UpperCase[i] = c]
    ELSE c

\* str.lower()
lower(s) == [i \in 1..Len(s) |-> LowerChar(s[i])]

\* str.strip()
strip(s) ==
    LET keep == {i \in 1..Len(s) : s[i] \notin Whitespace}
    IN  IF keep = {} THEN <<>> ELSE SubSeq(s, Min(keep), Max(keep))

\* Python's `sub in s`.
Contains(s, sub) ==
    \E i \in 0..(Len(s) - Len(sub)) : SubSeq(s, i + 1, i + Len(sub)) = sub

\* str(val) of a cell: NaN prints as "nan".
str(val) == IF val = NoVal THEN <<"n","a","n">> ELSE val

IsDigit(c) == \E i \in 1..Len(Digits) : Digits[i] = c
DigitVal(c) == (CHOOSE i \in 1..Len(Digits) : Digits[i] = c) - 1

RECURSIVE Decimal(_)
Decimal(s) ==
    IF s = <<>> THEN 0
    ELSE 10 * Decimal(SubSeq(s, 1, Len(s) - 1)) + DigitVal(s[Len(s)])

\* astype(str).str.extract(r"(\d+)").astype(float): the first run of digits.
ll_index(LL_num) ==
    LET s == str(LL_num)
        ds == {i \in 1..Len(s) : IsDigit(s[i])}
    IN  IF ds = {} THEN NaN
        ELSE LET first == Min(ds)
                 last == Max({j \in first..Len(s) :
                                \A k \in first..j : IsDigit(s[k])})
             IN  Decimal(SubSeq(s, first, last))

\* _is_empty(val)
EmptyWords == {<<>>, <<"n","a","n">>, <<"n","a","t">>,
               <<"n","o","n","e">>, <<"n","u","l","l">>}
_is_empty(val) ==
    \/ val = NoVal
    \/ lower(strip(val)) \in EmptyWords

-----------------------------------------------------------------------------
(* split_by_part_ll_reset                                                   *)

\* sort_values(by=["_dt", "_orig_order"], kind="stable"): NaT sorts last.
SplitLess(a, b) ==
    \/ a._dt # NaT /\ (b._dt = NaT \/ a._dt < b._dt)
    \/ a._dt = b._dt /\ a._orig_order < b._orig_order

\* The frame with the ll_index, _dt and _orig_order columns added.
SplitColumns(df) ==
    [i \in 1..Len(df) |->
        [row |-> df[i], ll_index |-> ll_index(df[i].LL_num),
         _dt |-> df[i].date, _orig_order |-> i - 1]]

SplitSortMutant(rows) == rows

SplitSort(rows) ==
    [k \in 1..Len(rows) |->
        rows[CHOOSE i \in 1..Len(rows) :
                Cardinality({j \in 1..Len(rows) : SplitLess(rows[j], rows[i])})
                    = k - 1]]

\* One iteration of the walk: the part of this row, from the state before it.
WalkBumpMutant(part, prev_ll, ll, max_parts) ==
    IF prev_ll # None /\ ll # NaN /\ (\A p \in prev_ll : ll < p)
    THEN part + 1 ELSE part

WalkBump(part, prev_ll, ll, max_parts) ==
    IF prev_ll # None /\ ll # NaN /\ (\A p \in prev_ll : ll < p)
       /\ part < max_parts
    THEN part + 1 ELSE part

WalkPrevMutant(prev_ll, ll) == {ll}

WalkPrev(prev_ll, ll) == IF ll # NaN THEN {ll} ELSE prev_ll

\* The walk over the sorted rows: the list `parts`.
RECURSIVE Walk(_, _, _, _, _)
Walk(lls, k, part, prev_ll, max_parts) ==
    IF k > Len(lls) THEN <<>>
    ELSE LET p == WalkBump(part,
                           prev_ll,
                           lls[k],
                           max_parts)
         IN  <<p>> \o Walk(lls, k + 1, p, WalkPrev(prev_ll, lls[k]), max_parts)

\* out[out["part"] == n].drop(columns=[...])
PartRows(out, n) ==
    LET idx == {i \in 1..Len(out) : out[i].part = n}
    IN  [k \in 1..Cardinality(idx) |->
            out[CHOOSE i \in idx :
                    Cardinality({j \in idx : j < i}) = k - 1].row]

SplitOut(df, max_parts) ==
    LET sorted == SplitSort(SplitColumns(df))
        parts == Walk([i \in 1..Len(sorted) |-> sorted[i].ll_index],
                      1, 1, None, max_parts)
    IN  [i \in 1..Len(sorted) |->
            [row |-> sorted[i].row, ll_index |-> sorted[i].ll_index,
             _dt |-> sorted[i]._dt, _orig_order |-> sorted[i]._orig_order,
             part |-> parts[i]]]

split_by_part_ll_reset(df, max_parts) ==
    LET out == SplitOut(df, max_parts)
    IN  <<PartRows(out, 1), PartRows(out, 2)>>

-----------------------------------------------------------------------------
(* The segmenter's inputs.                                                 *)

LLCells == {NoVal, <<"1","a","9">>, <<"L","L"," ","2">>, <<"1","2">>}
SplitDates == (0..MaxDate) \cup {NaT}
SplitRow == [date : SplitDates, LL_num : LLCells]

SeqsUpTo(S, n) == UNION {[1..m -> S] : m \in 0..n}

\* Session indices on ascending dates, one row per index.
Ascending(idx) == [i \in 1..Len(idx) |-> [date |-> i - 1, LL_num |-> <<Digits[idx[i] + 1]>>]]

ExampleThreeWay == Ascending(<<1, 2, 1, 3, 1, 2>>)
ExampleTwoWay == Ascending(<<1, 2, 3, 1, 2, 3>>)
\* A row without a session index between two indexed rows, then a second reset.
ExampleGap ==
    <<[date |-> 0, LL_num |-> <<"1","2">>], [date |-> 1, LL_num |-> NoVal],
      [date |-> 2, LL_num |-> <<"2">>], [date |-> 3, LL_num |-> <<"1">>]>>

NoConfig ==
    /\ PROJECT_DUE_DATES = <<>>
    /\ MILESTONE_DUE_DAYS = <<>>
    /\ LAB_TITLE_NORMALIZATION = <<>>

ConfigUnchanged ==
    UNCHANGED <<PROJECT_DUE_DATES, MILESTONE_DUE_DAYS, LAB_TITLE_NORMALIZATION>>

InitSplit ==
    /\ pc = "split"
    /\ \E df \in SeqsUpTo(SplitRow, MaxRows) \cup {ExampleThreeWay, ExampleTwoWay, ExampleGap},
          max_parts \in 1..MaxParts :
            args = [df |-> df, max_parts |-> max_parts]
    /\ frame = <<>>
    /\ ret = <<>>
    /\ hist = <<>>
    /\ NoConfig

\* A call of split_by_part_ll_reset(df, max_parts).
Split ==
    /\ pc = "split"
    /\ frame' = SplitOut(args.df, args.max_parts)
    /\ ret' = split_by_part_ll_reset(args.df, args.max_parts)
    /\ hist' = IF hist = <<>> THEN <<ret'>> ELSE hist
    /\ pc' = "split_done"
    /\ UNCHANGED args
    /\ ConfigUnchanged

NextSplit == Split

SpecSplit == InitSplit /\ [][NextSplit]_vars

-----------------------------------------------------------------------------
(* The same table handed to the segmenter again with its rows in another   *)
(* order.  The tables of this specification have pairwise distinct dates.  *)

ReorderDates == 0..(MaxRows - 1)
ReorderRow == [date : ReorderDates, LL_num : LLCells]

DistinctDates(df) ==
    \A i, j \in 1..Len(df) :
        /\ df[i].date # NaT
        /\ (i # j => df[i].date # df[j].date)

Swap(df, i, j) ==
    [k \in 1..Len(df) |-> IF k = i THEN df[j] ELSE IF k = j THEN df[i] ELSE df[k]]

InitReorder ==
    /\ pc = "split"
    /\ \E df \in {d \in SeqsUpTo(ReorderRow, MaxRows) : DistinctDates(d)}
                  \cup {ExampleTwoWay},
          max_parts \in 1..MaxParts :
            args = [df |-> df, max_parts |-> max_parts]
    /\ frame = <<>>
    /\ ret = <<>>
    /\ hist = <<>>
    /\ NoConfig

\* The caller exchanges two rows of the table and calls the segmenter again.
Reorder ==
    /\ pc = "split_done"
    /\ \E i, j \in 1..Len(args.df) :
          /\ i < j
          /\ args' = [args EXCEPT !.df = Swap(args.df, i, j)]
    /\ pc' = "split"
    /\ frame' = <<>>
    /\ ret' = <<>>
    /\ UNCHANGED hist
    /\ ConfigUnchanged

NextReorder == Split \/ Reorder

SpecReorder == InitReorder /\ [][NextReorder]_vars

-----------------------------------------------------------------------------
(* Dates: day numbers, day 0 a Monday.                                     *)

DaysPerWeek == 7
WEEKDAYS == <<"Monday", "Tuesday", "Wednesday", "Thursday", "Friday",
              "Saturday", "Sunday">>

\* datetime.weekday()
weekday(d) == d % DaysPerWeek

\* ["Monday", ..., "Sunday"].index(day)
WeekdayIndex(day) == (CHOOSE i \in 1..Len(WEEKDAYS) : WEEKDAYS[i] = day) - 1

-----------------------------------------------------------------------------
(* utils.edits: the override table and the due-days policy.                *)

\* get_milestone_due_days(section): the section's weekday names, [] if the
\* section is unknown.
get_milestone_due_days(section_code) ==
    LET known == {i \in 1..Len(MILESTONE_DUE_DAYS) :
                    MILESTONE_DUE_DAYS[i].section = section_code}
    IN  IF known = {} THEN <<>> ELSE MILESTONE_DUE_DAYS[Min(known)].days

\* f"{track} Section {section_code}"
SectionFull(track, section_code) ==
    track \o <<" ","S","e","c","t","i","o","n"," ">> \o section_code

\* The loop over PROJECT_DUE_DATES.items(): the first entry whose section and
\* title equal the keys after strip().lower(), None if there is none.
FirstOverrideExact(override_dict, key_section, key_title) ==
    LET hits == {i \in 1..Len(override_dict) :
                    /\ override_dict[i].section = key_section
                    /\ override_dict[i].title = key_title}
    IN  IF hits = {} THEN NaT ELSE override_dict[Min(hits)].due

FirstOverride(override_dict, key_section, key_title) ==
    LET hits == {i \in 1..Len(override_dict) :
                    /\ lower(strip(override_dict[i].section)) = key_section
                    /\ lower(strip(override_dict[i].title)) = key_title}
    IN  IF hits = {} THEN NaT ELSE override_dict[Min(hits)].due

\* The loop over due_days: the least base + ((idx - base.weekday()) % 7).
RECURSIVE DueLoop(_, _, _, _)
DueLoop(due_days, k, base_date, best) ==
    IF k > Len(due_days) THEN best
    ELSE LET idx == WeekdayIndex(due_days[k])
             cand == base_date + ((idx - weekday(base_date)) % DaysPerWeek)
         IN  DueLoop(due_days, k + 1, base_date,
                     IF best = NaT \/ cand < best THEN cand ELSE best)

NextWeekdayMutant(due_days, base_date) ==
    IF due_days = <<>> THEN NaT
    ELSE base_date + ((WeekdayIndex(due_days[1]) - weekday(base_date)) % DaysPerWeek)

NextWeekday(due_days, base_date) == DueLoop(due_days, 1, base_date, NaT)

-----------------------------------------------------------------------------
(* generate_friday_messages: the due dates of the two milestones.          *)

\* get_custom_project_due_date: a cell that is "" is falsy, a NaN cell is
\* no str.
get_custom_project_due_date(milestone_title, section_code, track, override_dict) ==
    IF milestone_title = <<>> \/ section_code = <<>> \/ track = <<>> THEN NaT
    ELSE IF milestone_title = NoVal THEN NaT
    ELSE FirstOverride(override_dict,
                       lower(strip(SectionFull(track, section_code))),
                       lower(strip(milestone_title)))

\* milestone_due_date of the last session (its date is last_ll_date).
FridayMilestoneDueDate(milestone_due, last_ll_date, sec, track) ==
    LET override_due ==
            get_custom_project_due_date(milestone_due, sec, track, PROJECT_DUE_DATES)
    IN  IF override_due # NaT THEN override_due
        ELSE IF milestone_due # NoVal
             THEN NextWeekday(get_milestone_due_days(sec), last_ll_date)
             ELSE NaT

\* next_milestone_due_date of the first future row that carries a milestone.
FridayNextMilestoneDueDate(next_milestone, base_date, sec, track) ==
    LET override_next_due ==
            get_custom_project_due_date(next_milestone, sec, track, PROJECT_DUE_DATES)
    IN  IF override_next_due # NaT THEN override_next_due
        ELSE NextWeekday(get_milestone_due_days(sec), base_date)

-----------------------------------------------------------------------------
(* render_end_of_livelab_reminders: the due date of a milestone.           *)

_override_dueMutant(milestone_title, section_code, track_name) ==
    IF _is_empty(milestone_title) \/ _is_empty(section_code) \/ _is_empty(track_name)
    THEN NaT
    ELSE FirstOverrideExact(PROJECT_DUE_DATES,
                            SectionFull(track_name, section_code),
                            milestone_title)

_override_due(milestone_title, section_code, track_name) ==
    IF _is_empty(milestone_title) \/ _is_empty(section_code) \/ _is_empty(track_name)
    THEN NaT
    ELSE FirstOverride(PROJECT_DUE_DATES,
                       lower(strip(SectionFull(track_name, section_code))),
                       lower(strip(str(milestone_title))))

\* The resolver with the emptiness test moved before the override lookup.
_compute_due_dateMutant(base_date, section_code, milestone_title, track_name) ==
    IF _is_empty(milestone_title) \/ base_date = NaT THEN NaT
    ELSE LET override == _override_due(milestone_title, section_code, track_name)
         IN  IF override # NaT THEN override
             ELSE NextWeekday(get_milestone_due_days(section_code), base_date)

\* base_date None is the model's NaT.
_compute_due_date(base_date, section_code, milestone_title, track_name) ==
    LET override == _override_due(milestone_title, section_code, track_name)
    IN  IF override # NaT THEN override
        ELSE IF _is_empty(milestone_title) \/ base_date = NaT THEN NaT
        ELSE NextWeekday(get_milestone_due_days(section_code), base_date)

-----------------------------------------------------------------------------
(* The resolvers' inputs: track DA, section 1A.                            *)

TrackDA == <<"D","A">>
Section1A == <<"1","A">>
Project1 == <<"P","1">>

\* Raw keys of the override table: two spellings of (DA Section 1A, P1), and
\* another section with P1.
OverrideKeys ==
    {[section |-> <<"D","A"," ","S","e","c","t","i","o","n"," ","1","A">>,
      title |-> Project1],
     [section |-> <<" ","d","a"," ","s","e","c","t","i","o","n"," ","1","a">>,
      title |-> <<"p","1"," ">>],
     [section |-> <<"D","A"," ","S","e","c","t","i","o","n"," ","1","B">>,
      title |-> Project1]}

\* Override dates before and after every date a policy can compute.
OverrideDates == {3, 30}
OverrideEntry ==
    {[section |-> k.section, title |-> k.title, due |-> d] :
        k \in OverrideKeys, d \in OverrideDates}

\* A dict holds a raw key once.
OverrideTables ==
    {t \in SeqsUpTo(OverrideEntry, MaxOverrides) :
        \A i, j \in 1..Len(t) :
            i # j => <<t[i].section, t[i].title>> # <<t[j].section, t[j].title>>}

PolicyDays == {"Monday", "Friday"}
PolicyTables ==
    {<<>>} \cup {<<[section |-> Section1A, days |-> days]>> :
                    days \in SeqsUpTo(PolicyDays, MaxDays)}

MilestoneCells == {NoVal, <<>>, Project1, <<" ","p","1">>, <<"P","3">>}
BaseDates == (DaysPerWeek..(2 * DaysPerWeek - 1)) \cup {NaT}

InitDue ==
    /\ pc = "resolve"
    /\ \E milestone_title \in MilestoneCells, base_date \in BaseDates :
          args = [base_date |-> base_date, section_code |-> Section1A,
                  milestone_title |-> milestone_title, track |-> TrackDA]
    /\ frame = <<>>
    /\ ret = NaT
    /\ hist = <<>>
    /\ PROJECT_DUE_DATES \in OverrideTables
    /\ MILESTONE_DUE_DAYS \in PolicyTables
    /\ LAB_TITLE_NORMALIZATION = <<>>

Returned(label, value) ==
    /\ pc' = label
    /\ ret' = value
    /\ UNCHANGED <<args, frame, hist>>
    /\ ConfigUnchanged

\* generate_friday_messages resolves the milestone of the last session; the
\* last session is a row of `past`, so its date is present.
ResolveFridayLast ==
    /\ pc = "resolve"
    /\ args.base_date # NaT
    /\ Returned("friday_last_done",
                FridayMilestoneDueDate(args.milestone_title, args.base_date,
                                       args.section_code, args.track))

\* generate_friday_messages resolves the milestone of a future row; the row
\* is one of `upcoming` whose milestone cell is not NaN.
ResolveFridayNext ==
    /\ pc = "resolve"
    /\ args.base_date # NaT
    /\ args.milestone_title # NoVal
    /\ Returned("friday_next_done",
                FridayNextMilestoneDueDate(args.milestone_title, args.base_date,
                                           args.section_code, args.track))

\* A call of _compute_due_date.
ResolveEndOfLab ==
    /\ pc = "resolve"
    /\ Returned("end_done",
                _compute_due_date(args.base_date, args.section_code,
                                  args.milestone_title, args.track))

NextDue == ResolveFridayLast \/ ResolveFridayNext \/ ResolveEndOfLab

SpecDue == InitDue /\ [][NextDue]_vars

-----------------------------------------------------------------------------
(* generate_monday_message                                                 *)

LAB_PLACEHOLDER_BULLETS == 1
WEEKDAY_ABBR == <<"Mon", "Tue", "Wed", "Thu", "Fri", "Sat", "Sun">>

\* The k-th element of a set of numbers, ascending.
Ordered(S) ==
    [k \in 1..Cardinality(S) |->
        CHOOSE i \in S : Cardinality({j \in S : j < i}) = k - 1]

\* Code-point order of the characters of the model.
CodeOrder == <<"\t", "\n", " ", ".">> \o Digits \o UpperCase \o LowerCase
Ord(c) == CHOOSE i \in 1..Len(CodeOrder) : CodeOrder[i] = c

\* Python's a < b on str.
StrLess(a, b) ==
    \E k \in 1..(Len(a) + 1) :
        /\ \A m \in 1..(k - 1) : m <= Len(b) /\ a[m] = b[m]
        /\ \/ k > Len(a) /\ k <= Len(b)
           \/ k <= Len(a) /\ k <= Len(b) /\ Ord(a[k]) < Ord(b[k])

\* config.CSV_TO_INSTRUCTOR, the entries of the DA sections 1A and 1B.
DotCsv == <<".","c","s","v">>
CSV_TO_INSTRUCTOR ==
    <<[file |-> SectionFull(TrackDA, Section1A) \o DotCsv, instructor |-> "@Sarah Cole"],
      [file |-> SectionFull(TrackDA, <<"1","B">>) \o DotCsv, instructor |-> "@Katie"]>>

\* CSV_TO_INSTRUCTOR.get(f"{s}.csv", "TBD")
Instructor(section) ==
    LET hits == {i \in 1..Len(CSV_TO_INSTRUCTOR) :
                    CSV_TO_INSTRUCTOR[i].file = section \o DotCsv}
    IN  IF hits = {} THEN "TBD" ELSE CSV_TO_INSTRUCTOR[Min(hits)].instructor

\* end_of_week(monday_dt)
end_of_week(monday_dt) == monday_dt + DaysPerWeek

normalize_titleMutant(title) ==
    LET key == title
        low == lower(key)
        hits == {i \in 1..Len(LAB_TITLE_NORMALIZATION) :
                    low = lower(LAB_TITLE_NORMALIZATION[i].k)}
    IN  IF hits = {} THEN key ELSE LAB_TITLE_NORMALIZATION[Min(hits)].v

\* normalize_title(title): the alias of the trimmed title when an alias key
\* equals it ignoring case, else the trimmed title as it is.
normalize_title(title) ==
    LET key == strip(title)
        low == lower(key)
        hits == {i \in 1..Len(LAB_TITLE_NORMALIZATION) :
                    low = lower(LAB_TITLE_NORMALIZATION[i].k)}
    IN  IF hits = {} THEN key ELSE LAB_TITLE_NORMALIZATION[Min(hits)].v

in_weekMutant(date, week_monday) ==
    date # NaT /\ date >= week_monday /\ date <= end_of_week(week_monday)

\* (tmp["__date_dt"] >= week_monday) & (tmp["__date_dt"] < week_next_monday);
\* a comparison with NaT is false.
in_week(date, week_monday) ==
    date # NaT /\ date >= week_monday /\ date < end_of_week(week_monday)

\* sort_values(["__weekday_rank", "__date_dt", "__title"]): equal rows keep
\* their order.
DigestLess(a, b) ==
    \/ a.__weekday_rank < b.__weekday_rank
    \/ /\ a.__weekday_rank = b.__weekday_rank
       /\ \/ a.__date_dt < b.__date_dt
          \/ /\ a.__date_dt = b.__date_dt
             /\ \/ StrLess(a.__title, b.__title)
                \/ a.__title = b.__title /\ a.pos < b.pos

\* w: the rows of the week with their derived columns, sorted.
DigestRows(df, week_monday) ==
    LET kept == Ordered({i \in 1..Len(df) : in_week(df[i].date, week_monday)})
        w == [k \in 1..Len(kept) |->
                [pos |-> kept[k],
                 __date_dt |-> df[kept[k]].date,
                 __weekday_rank |-> weekday(df[kept[k]].date),
                 __weekday_abbr |-> WEEKDAY_ABBR[weekday(df[kept[k]].date) + 1],
                 __title |-> normalize_title(str(df[kept[k]].livelab_title)),
                 __instructor |-> Instructor(df[kept[k]].section)]]
    IN  [k \in 1..Len(w) |->
            w[CHOOSE i \in 1..Len(w) :
                Cardinality({j \in 1..Len(w) : DigestLess(w[j], w[i])}) = k - 1]]

\* The schedule of one group: a segment per weekday in Monday-to-Sunday
\* order, each with the instructors of that weekday, once each, in row order.
Schedule(w, title) ==
    LET g == {i \in 1..Len(w) : w[i].__title = title}
        ranks == Ordered({w[i].__weekday_rank : i \in g})
        firstOf(r) == {i \in g : /\ w[i].__weekday_rank = r
                                 /\ \A j \in g :
                                      (j < i /\ w[j].__weekday_rank = r)
                                        => w[j].__instructor # w[i].__instructor}
    IN  [k \in 1..Len(ranks) |->
            [day |-> WEEKDAY_ABBR[ranks[k] + 1],
             instrs |-> [m \in 1..Cardinality(firstOf(ranks[k])) |->
                            w[Ordered(firstOf(ranks[k]))[m]].__instructor]]]

Line(kind) == [kind |-> kind, title |-> <<>>, schedule |-> <<>>]

RECURSIVE PlaceholderBullets(_)
PlaceholderBullets(n) ==
    IF n = 0 THEN <<>>
    ELSE <<Line("placeholder"), Line("newline")>> \o PlaceholderBullets(n - 1)

\* The lines of the groups, in order of each title's first row in w.
RECURSIVE GroupLines(_, _, _)
GroupLines(w, firsts, k) ==
    IF k > Len(firsts) THEN <<>>
    ELSE <<[kind |-> "lab", title |-> w[firsts[k]].__title,
            schedule |-> Schedule(w, w[firsts[k]].__title)]>>
         \o PlaceholderBullets(LAB_PLACEHOLDER_BULLETS)
         \o GroupLines(w, firsts, k + 1)

\* The message as its list of lines; the notice is one line.
generate_monday_message(df, week_monday) ==
    LET w == DigestRows(df, week_monday)
        firsts == Ordered({i \in 1..Len(w) :
                            \A j \in 1..(i - 1) : w[j].__title # w[i].__title})
    IN  IF w = <<>> THEN <<Line("no_labs_found")>>
        ELSE <<Line("header"), Line("blank"), Line("announcements"),
               Line("placeholder"), Line("newline"), Line("blank"),
               Line("labs_this_week")>>
             \o GroupLines(w, firsts, 1)

-----------------------------------------------------------------------------
(* The digest's inputs: the week starting on day 7.                        *)

LabA == <<"L","a","b"," ","A">>
DigestTitles == {LabA, <<"l","a","b"," ","a"," ">>, <<" ","L","a","b"," ","A">>}
DigestSections == {SectionFull(TrackDA, Section1A), SectionFull(TrackDA, <<"1","B">>)}
DigestDates(week_monday) ==
    {NaT, week_monday - 1, week_monday, week_monday + 2, end_of_week(week_monday)}
DigestRow(week_monday) ==
    [date : DigestDates(week_monday), livelab_title : DigestTitles,
     section : DigestSections]

\* The shipped alias table is empty; the other maps "lab a" to "Lab A".
AliasTables == {<<>>, <<[k |-> <<"l","a","b"," ","a">>, v |-> LabA]>>}

InitDigest ==
    /\ pc = "digest"
    /\ \E week_monday \in {DaysPerWeek} :
        \E df \in SeqsUpTo(DigestRow(week_monday), MaxDigestRows) :
            args = [df |-> df, week_monday |-> week_monday]
    /\ frame = <<>>
    /\ ret = <<>>
    /\ hist = <<>>
    /\ PROJECT_DUE_DATES = <<>>
    /\ MILESTONE_DUE_DAYS = <<>>
    /\ LAB_TITLE_NORMALIZATION \in AliasTables

\* A call of generate_monday_message(df, week_monday=...).
Digest ==
    /\ pc = "digest"
    /\ frame' = DigestRows(args.df, args.week_monday)
    /\ ret' = generate_monday_message(args.df, args.week_monday)
    /\ pc' = "digest_done"
    /\ UNCHANGED <<args, hist>>
    /\ ConfigUnchanged

NextDigest == Digest

SpecDigest == InitDigest /\ [][NextDigest]_vars

-----------------------------------------------------------------------------
(* Schedule rows of the reminders and the recap.                           *)

\* sort_values("date") / sort_values("_dt") with the default kind
\* ("quicksort", which is not stable): every order of the rows at `idx` in
\* which the dates ascend, rows without a date last; rows with equal dates
\* come in any order.
DateLessEq(a, b) == b = NaT \/ (a # NaT /\ a <= b)

DateOrders(df, idx) ==
    {o \in [1..Cardinality(idx) -> idx] :
        /\ \A k, m \in 1..Cardinality(idx) : k # m => o[k] # o[m]
        /\ \A k \in 1..(Cardinality(idx) - 1) :
              DateLessEq(df[o[k]].date, df[o[k + 1]].date)}

\* An element the function hands to Streamlit: a message line or a bullet.
Element(kind, name, title, date) ==
    [kind |-> kind, name |-> name, title |-> title, date |-> date]

-----------------------------------------------------------------------------
(* render_end_of_livelab_reminders                                         *)

_is_holidayMutant(row) == FALSE

\* _is_holiday(row)
_is_holiday(row) ==
    \/ Contains(lower(str(row.livelab_title)), <<"h","o","l","i","d","a","y">>)
    \/ Contains(lower(str(row.notes)), <<"n","o"," ","l","i","v","e","l","a","b">>)

\* The rows of the track and section, as positions of df.
Scoped(df, track, section) ==
    {i \in 1..Len(df) :
        /\ track # NoVal => df[i].track = track
        /\ section # NoVal => df[i].wave_section = section}

\* sched for one outcome `order` of the sort: the rows that are no holiday
\* and have a title, in sorted order.
Sched(df, order) ==
    LET keep == Ordered({k \in 1..Len(order) :
                            /\ ~_is_holiday(df[order[k]])
                            /\ ~_is_empty(df[order[k]].livelab_title)})
    IN  [k \in 1..Len(keep) |-> df[order[keep[k]]]]

\* The first index in from..Len(sched) whose cell `col` is not empty, as a
\* set: empty when there is none.
FirstWithVideo(sched, from) ==
    LET later == {j \in from..Len(sched) : ~_is_empty(sched[j].videos_watch_by)}
    IN  IF later = {} THEN {} ELSE {Min(later)}

\* The scan started at the top of sched.
FirstWithMilestoneMutant(sched, from) ==
    LET later == {j \in 1..Len(sched) : ~_is_empty(sched[j].assignment_due_after)}
    IN  IF later = {} THEN {} ELSE {Min(later)}

FirstWithMilestone(sched, from) ==
    LET later == {j \in from..Len(sched) : ~_is_empty(sched[j].assignment_due_after)}
    IN  IF later = {} THEN {} ELSE {Min(later)}

\* The SkillBuilder bullet of the block of sched[i].
VideoBullets(sched, i) ==
    IF i + 1 <= Len(sched)
    THEN LET next_row == sched[i + 1]
         IN  IF ~_is_empty(next_row.videos_watch_by)
             THEN <<Element("watch_before_next", strip(str(next_row.videos_watch_by)),
                            next_row.livelab_title, next_row.date)>>
             ELSE LET later == FirstWithVideo(sched, i + 2)
                  IN  IF later = {} THEN <<>>
                      ELSE LET r == sched[Min(later)]
                           IN  <<Element("head_start_video", r.videos_watch_by,
                                         r.livelab_title, r.date)>>
    ELSE <<Element("end_of_schedule", <<>>, <<>>, NaT)>>

\* The milestone bullet of the block of sched[i].
MilestoneBullets(sched, i) ==
    LET row == sched[i]
        sec_code == str(row.wave_section)
        track_name == str(row.track)
        next_date == IF i + 1 <= Len(sched) THEN sched[i + 1].date ELSE NaT
        ms_title == row.assignment_due_after
        ms_due == IF ~_is_empty(ms_title)
                  THEN _compute_due_date(row.date, sec_code, ms_title, track_name)
                  ELSE NaT
    IN  IF ms_due # NaT /\ (next_date = NaT \/ ms_due <= next_date)
        THEN <<Element("milestone_due", ms_title, <<>>, ms_due)>>
        ELSE LET later == FirstWithMilestone(sched, i + 1)
             IN  IF later = {} THEN <<>>
                 ELSE LET lm_title == sched[Min(later)].assignment_due_after
                          lm_due == _compute_due_date(sched[Min(later)].date,
                                                      sec_code, lm_title, track_name)
                      IN  IF lm_due # NaT
                          THEN <<Element("head_start_milestone", lm_title, <<>>, lm_due)>>
                          ELSE <<>>

\* The expander of sched[i] and what it shows.
Block(sched, i) ==
    LET bullets == VideoBullets(sched, i) \o MilestoneBullets(sched, i)
    IN  [kind |-> "expander", LL_num |-> sched[i].LL_num,
         title |-> sched[i].livelab_title, date |-> sched[i].date,
         bullets |-> IF bullets # <<>> THEN bullets
                     ELSE <<Element("nothing_due", <<>>, <<>>, NaT)>>]

\* What the function emits for one outcome of the sort.
Reminders(sched) ==
    IF sched = <<>>
    THEN <<[kind |-> "info_no_livelabs", LL_num |-> NoVal, title |-> NoVal,
            date |-> NaT, bullets |-> <<>>]>>
    ELSE [i \in 1..Len(sched) |-> Block(sched, i)]

-----------------------------------------------------------------------------
(* The tables of the reminders: track DA, section 1A, dates present.       *)

Text_Intro == <<"I","n","t","r","o">>
Text_Holiday == <<"H","o","l","i","d","a","y">>
Text_DeepDive == <<"D","e","e","p"," ","D","i","v","e">>
Text_Lab == <<"L","a","b">>
Text_NoLivelab == <<"n","o"," ","l","i","v","e","l","a","b">>
Text_VideoA == <<"V","i","d","e","o"," ","A">>
Text_VideoB == <<"V","i","d","e","o"," ","B">>

Project3 == <<"P","3">>

Cells(LL_num, title, notes, video, milestone) ==
    [LL_num |-> LL_num, livelab_title |-> title, notes |-> notes,
     videos_watch_by |-> video, assignment_due_after |-> milestone]

\* The cells of a row, apart from its date.
RowCells ==
    {Cells(<<"1">>, Text_Intro, NoVal, Text_VideoA, NoVal),
     Cells(<<"2">>, Text_Holiday, Text_NoLivelab, NoVal, NoVal),
     Cells(<<"3">>, Text_DeepDive, NoVal, Text_VideoB, Project1),
     Cells(<<"4">>, Text_Lab, NoVal, NoVal, Project3),
     Cells(<<"5">>, NoVal, NoVal, Text_VideoA, Project1)}

RowOn(date, cells) ==
    [date |-> date, LL_num |-> cells.LL_num, livelab_title |-> cells.livelab_title,
     notes |-> cells.notes, videos_watch_by |-> cells.videos_watch_by,
     assignment_due_after |-> cells.assignment_due_after,
     track |-> TrackDA, wave_section |-> Section1A]

\* Monday, Wednesday and Friday of the first week.
ReminderDates == {0, 2, 4}
ReminderRow == {RowOn(d, c) : d \in ReminderDates, c \in RowCells}

FridayPolicy == <<[section |-> Section1A, days |-> <<"Friday">>]>>
ThursdayPolicy == <<[section |-> Section1A, days |-> <<"Thursday">>]>>
WednesdayPolicy == <<[section |-> Section1A, days |-> <<"Wednesday">>]>>

InitReminders ==
    /\ pc = "reminders"
    /\ \E df \in SeqsUpTo(ReminderRow, MaxSchedRows) :
          args = [df |-> df, track |-> TrackDA, section |-> Section1A]
    /\ frame = <<>>
    /\ ret = <<>>
    /\ hist = <<>>
    /\ PROJECT_DUE_DATES = <<>>
    /\ MILESTONE_DUE_DAYS = ThursdayPolicy
    /\ LAB_TITLE_NORMALIZATION = <<>>

\* A call of render_end_of_livelab_reminders(df, track, section).
RenderReminders ==
    /\ pc = "reminders"
    /\ \E order \in DateOrders(args.df, Scoped(args.df, args.track, args.section)) :
          /\ frame' = Sched(args.df, order)
          /\ ret' = Reminders(Sched(args.df, order))
    /\ pc' = "reminders_done"
    /\ UNCHANGED <<args, hist>>
    /\ ConfigUnchanged

NextReminders == RenderReminders

SpecReminders == InitReminders /\ [][NextReminders]_vars

-----------------------------------------------------------------------------
(* Calendar dates: day 0 is Monday 2025-09-01.                             *)

MonthDays == <<31, 28, 31, 30, 31, 30, 31, 31, 30, 31, 30, 31>>

IsLeap(y) == y % 4 = 0 /\ (y % 100 # 0 \/ y % 400 = 0)

DaysInMonth(y, m) == IF m = 2 /\ IsLeap(y) THEN MonthDays[m] + 1 ELSE MonthDays[m]

RECURSIVE DaysBeforeMonth(_, _)
DaysBeforeMonth(y, m) ==
    IF m = 1 THEN 0 ELSE DaysBeforeMonth(y, m - 1) + DaysInMonth(y, m - 1)

\* datetime.toordinal()
toordinal(y, m, d) ==
    LET p == y - 1
    IN  p * 365 + (p \div 4) - (p \div 100) + (p \div 400) + DaysBeforeMonth(y, m) + d

Epoch == toordinal(2025, 9, 1)

\* datetime.strptime(s, "%m-%d-%Y") as a day number; NaT stands for the
\* ValueError.
strptime(s) ==
    LET dashes == {i \in 1..Len(s) : s[i] = "-"}
        AllDigits(t) == \A i \in 1..Len(t) : IsDigit(t[i])
    IN  IF Cardinality(dashes) # 2 THEN NaT
        ELSE LET mm == SubSeq(s, 1, Min(dashes) - 1)
                 dd == SubSeq(s, Min(dashes) + 1, Max(dashes) - 1)
                 yy == SubSeq(s, Max(dashes) + 1, Len(s))
             IN  IF /\ Len(mm) \in 1..2 /\ Len(dd) \in 1..2 /\ Len(yy) = 4
                    /\ AllDigits(mm) /\ AllDigits(dd) /\ AllDigits(yy)
                    /\ Decimal(mm) \in 1..12 /\ Decimal(yy) >= 1
                    /\ Decimal(dd) \in 1..DaysInMonth(Decimal(yy), Decimal(mm))
                 THEN toordinal(Decimal(yy), Decimal(mm), Decimal(dd)) - Epoch
                 ELSE NaT

adjust_to_most_recent_fridayMutant(date) == date + ((4 - weekday(date)) % DaysPerWeek)

\* adjust_to_most_recent_friday(date)
adjust_to_most_recent_friday(date) == date - ((weekday(date) - 4) % DaysPerWeek)

-----------------------------------------------------------------------------
(* generate_friday_messages                                                *)

\* Truth value of a cell: an empty string is false, NaN is true.
Truthy(cell) == cell # <<>>

\* "an upcoming LiveLab"
Text_AnUpcomingLiveLab ==
    <<"a","n"," ","u","p","c","o","m","i","n","g"," ","L","i","v","e","L","a","b">>

\* "No description available" (its trailing emoji left out)
Text_NoDescription ==
    <<"N","o"," ","d","e","s","c","r","i","p","t","i","o","n"," ",
      "a","v","a","i","l","a","b","l","e">>

\* df[df["track"] == track], as positions of df.
TrackRows(df, track) == {i \in 1..Len(df) : df[i].track = track}

\* df["wave_section"].unique(): the sections in order of first appearance.
UniqueSections(df, idx) ==
    LET firsts == Ordered({i \in idx : \A j \in idx : j < i =>
                              df[j].wave_section # df[i].wave_section})
    IN  [k \in 1..Len(firsts) |-> df[firsts[k]].wave_section]

\* sections_to_process
SectionsToProcess(df, track, section) ==
    IF section # NoVal /\ Truthy(section) THEN <<section>>
    ELSE UniqueSections(df, TrackRows(df, track))

SectionRows(df, track, sec) == {i \in TrackRows(df, track) : df[i].wave_section = sec}

\* section_df[section_df["date"] > friday_date]
UpcomingRows(df, track, sec, friday_date) ==
    {i \in SectionRows(df, track, sec) : df[i].date # NaT /\ df[i].date > friday_date}

PastRowsMutant(df, track, sec, friday_date) ==
    {i \in SectionRows(df, track, sec) : df[i].date # NaT /\ df[i].date < friday_date}

\* section_df[section_df["date"] <= friday_date]
PastRows(df, track, sec, friday_date) ==
    {i \in SectionRows(df, track, sec) : df[i].date # NaT /\ df[i].date <= friday_date}

\* sort_values("date", ascending=False) with the default kind: every order of
\* the rows at `idx` in which the dates descend.
DateOrdersDescending(df, idx) ==
    {o \in [1..Cardinality(idx) -> idx] :
        /\ \A k, m \in 1..Cardinality(idx) : k # m => o[k] # o[m]
        /\ \A k \in 1..(Cardinality(idx) - 1) :
              DateLessEq(df[o[k + 1]].date, df[o[k]].date)}

\* The first row of `upcoming` whose cell is not NaN, as a set.
FirstNotNa(df, upcoming, col) ==
    LET ks == {k \in 1..Len(upcoming) : df[upcoming[k]][col] # NoVal}
    IN  IF ks = {} THEN {} ELSE {df[upcoming[Min(ks)]]}

\* The due-now line whenever the last session's due date resolves.
FridayMilestoneLineMutant(df, past, upcoming, sec, track) ==
    LET last == df[past[1]]
        milestone_due == last.assignment_due_after
        milestone_due_date == FridayMilestoneDueDate(milestone_due, last.date, sec, track)
    IN  IF Truthy(milestone_due) /\ milestone_due_date # NaT
        THEN Element("milestone_due", milestone_due, <<>>, milestone_due_date)
        ELSE Element("no_milestones", <<>>, <<>>, NaT)

\* The milestone line of a block.
FridayMilestoneLine(df, past, upcoming, sec, track) ==
    LET last == df[past[1]]
        next_ll_date == IF upcoming # <<>> THEN df[upcoming[1]].date ELSE NaT
        milestone_due == last.assignment_due_after
        milestone_due_date == FridayMilestoneDueDate(milestone_due, last.date, sec, track)
        next_milestone_lab == FirstNotNa(df, upcoming, "assignment_due_after")
    IN  IF /\ Truthy(milestone_due) /\ milestone_due_date # NaT
           /\ (next_ll_date = NaT \/ milestone_due_date <= next_ll_date)
        THEN Element("milestone_due", milestone_due, <<>>, milestone_due_date)
        ELSE IF /\ next_milestone_lab # {}
                /\ \A r \in next_milestone_lab :
                      /\ Truthy(r.assignment_due_after)
                      /\ FridayNextMilestoneDueDate(r.assignment_due_after, r.date,
                                                    sec, track) # NaT
        THEN LET r == CHOOSE r \in next_milestone_lab : TRUE
             IN  Element("milestone_heads_up", r.assignment_due_after, <<>>,
                         FridayNextMilestoneDueDate(r.assignment_due_after, r.date,
                                                    sec, track))
        ELSE Element("no_milestones", <<>>, <<>>, NaT)

\* The lines about the next session and its SkillBuilder.
FridayNextLines(df, upcoming) ==
    IF upcoming # <<>>
    THEN LET next_lab == df[upcoming[1]]
             next_ll_title == IF next_lab.livelab_title # NoVal
                              THEN next_lab.livelab_title ELSE Text_AnUpcomingLiveLab
             next_ll_description == IF next_lab.notes # NoVal
                                    THEN next_lab.notes ELSE Text_NoDescription
             skillbuilder_before == next_lab.videos_watch_by
             future_skillbuilder == FirstNotNa(df, upcoming, "videos_watch_by")
         IN  IF lower(strip(str(next_ll_title))) = <<"h","o","l","i","d","a","y">>
             THEN <<Element("next_is_holiday", <<>>, <<>>, next_lab.date)>>
             ELSE <<Element("next_livelab", next_ll_description, next_ll_title,
                            next_lab.date)>>
                  \o (IF skillbuilder_before # NoVal /\ Truthy(skillbuilder_before)
                      THEN <<Element("prepare_skillbuilder", skillbuilder_before,
                                     <<>>, NaT)>>
                      ELSE IF /\ future_skillbuilder # {}
                              /\ \A r \in future_skillbuilder :
                                    Truthy(r.videos_watch_by) /\ Truthy(r.LL_num)
                      THEN LET r == CHOOSE r \in future_skillbuilder : TRUE
                           IN  <<Element("next_skillbuilder", r.videos_watch_by,
                                         r.LL_num, r.date)>>
                      ELSE <<Element("no_skillbuilders", <<>>, <<>>, NaT)>>)
    ELSE <<Element("no_upcoming_livelabs", <<>>, <<>>, NaT)>>

\* What the function hands to Streamlit outside the lines of a block.
Emitted(kind, sec, date, lines) ==
    [kind |-> kind, sec |-> sec, date |-> date, lines |-> lines]

\* One pass of the loop over the sections: the error, or the expander.
FridayBlock(df, past, upcoming, sec, track, friday_date) ==
    IF past = <<>> THEN Emitted("error_no_past", sec, NaT, <<>>)
    ELSE LET last == df[past[1]]
         IN  Emitted("expander", sec, friday_date,
                     <<Element("sanity_check", last.LL_num, last.livelab_title, last.date),
                       Element("greeting", <<>>, <<>>, NaT),
                       FridayMilestoneLine(df, past, upcoming, sec, track)>>
                     \o FridayNextLines(df, upcoming)
                     \o <<Element("closing", <<>>, <<>>, NaT)>>)

\* The outcomes of the two sorts of every section: for each section a record
\* of `past` and `upcoming`, as positions of df.
FridaySorts(df, track, secs, friday_date) ==
    LET Outcomes(sec) ==
            {[sec |-> sec, past |-> p, upcoming |-> u] :
                p \in DateOrdersDescending(df, PastRows(df, track, sec, friday_date)),
                u \in DateOrders(df, UpcomingRows(df, track, sec, friday_date))}
    IN  {f \in [1..Len(secs) -> UNION {Outcomes(secs[k]) : k \in 1..Len(secs)}] :
            \A k \in 1..Len(secs) : f[k] \in Outcomes(secs[k])}

\* The notices about the date, and the date the blocks are written for; NaT
\* when the function returns after the first notice.
FridayParsed(friday_str, friday_dt) ==
    IF friday_str # NoVal THEN strptime(friday_str) ELSE friday_dt

FridayNoticesMutant(parsed) ==
    IF parsed = NaT THEN <<>>
    ELSE IF weekday(parsed) # 4
    THEN <<Emitted("warning_not_friday", NoVal, parsed, <<>>),
           Emitted("info_adjusted", NoVal, adjust_to_most_recent_friday(parsed), <<>>)>>
    ELSE <<>>

FridayNotices(parsed) ==
    IF parsed = NaT THEN <<Emitted("warning_invalid_date", NoVal, NaT, <<>>)>>
    ELSE IF weekday(parsed) # 4
    THEN <<Emitted("warning_not_friday", NoVal, parsed, <<>>),
           Emitted("info_adjusted", NoVal, adjust_to_most_recent_friday(parsed), <<>>)>>
    ELSE <<>>

FridayTarget(parsed) ==
    IF parsed = NaT THEN NaT
    ELSE IF weekday(parsed) # 4 THEN adjust_to_most_recent_friday(parsed)
    ELSE parsed

-----------------------------------------------------------------------------
(* The tables of the recap: track DA, sections 1A and 1B.                  *)

\* Wednesday and Friday of the first week, Monday of the second, no date.
FridayDates == {2, 4, 7, NaT}

FridayCells ==
    {Cells(<<"1">>, Text_Intro, NoVal, Text_VideoA, NoVal),
     Cells(<<"2">>, Text_Holiday, Text_NoLivelab, NoVal, NoVal),
     Cells(<<"3">>, Text_DeepDive, NoVal, Text_VideoB, Project1)}

Section1B == <<"1","B">>

FridayRow ==
    {RowOn(d, c) : d \in FridayDates, c \in FridayCells}
    \cup {[RowOn(d, Cells(<<"4">>, Text_Lab, NoVal, NoVal, Project1))
              EXCEPT !.wave_section = Section1B] : d \in FridayDates}

\* A Sunday as a datetime, a Friday as a string, and a string in another
\* format.
FridayInputs ==
    {[str |-> NoVal, dt |-> 6],
     [str |-> <<"0","9","-","0","5","-","2","0","2","5">>, dt |-> NaT],
     [str |-> <<"9","/","5","/","2","0","2","5">>, dt |-> NaT]}

InitFriday ==
    /\ pc = "friday"
    /\ \E df \in SeqsUpTo(FridayRow, MaxSchedRows), fd \in FridayInputs,
          section \in {NoVal, Section1A} :
          args = [df |-> df, track |-> TrackDA, friday_str |-> fd.str,
                  friday_dt |-> fd.dt, section |-> section]
    /\ frame = <<>>
    /\ ret = <<>>
    /\ hist = <<>>
    /\ PROJECT_DUE_DATES = <<>>
    /\ MILESTONE_DUE_DAYS = WednesdayPolicy
    /\ LAB_TITLE_NORMALIZATION = <<>>

\* A call of generate_friday_messages(df, track, friday_date, section).
FridayMessages ==
    /\ pc = "friday"
    /\ LET parsed == FridayParsed(args.friday_str, args.friday_dt)
           friday_date == FridayTarget(parsed)
           secs == SectionsToProcess(args.df, args.track, args.section)
       IN  IF parsed = NaT
           THEN /\ frame' = <<>>
                /\ ret' = FridayNotices(parsed)
           ELSE \E sorts \in FridaySorts(args.df, args.track, secs, friday_date) :
                  /\ frame' = sorts
                  /\ ret' = FridayNotices(parsed) \o
                            [k \in 1..Len(secs) |->
                                FridayBlock(args.df, sorts[k].past, sorts[k].upcoming,
                                            secs[k], args.track, friday_date)]
    /\ pc' = "friday_done"
    /\ UNCHANGED <<args, hist>>
    /\ ConfigUnchanged

NextFriday == FridayMessages

SpecFriday == InitFriday /\ [][NextFriday]_vars

-----------------------------------------------------------------------------
(* add_ordinal_suffix                                                      *)

MONTHS ==
    <<"January", "February", "March", "April", "May", "June", "July",
      "August", "September", "October", "November", "December">>

\* The calendar date that lies r days after the first of month m of year y.
RECURSIVE CivilFrom(_, _, _)
CivilFrom(y, m, r) ==
    IF r < DaysInMonth(y, m) THEN [year |-> y, month |-> m, day |-> r + 1]
    ELSE IF m = 12 THEN CivilFrom(y + 1, 1, r - DaysInMonth(y, m))
    ELSE CivilFrom(y, m + 1, r - DaysInMonth(y, m))

\* date.year, date.month, date.day of day number d >= 0.
Civil(d) == CivilFrom(2025, 9, d)

Formatted(literal, weekday_name, month_name, day, suffix) ==
    [literal |-> literal, weekday |-> weekday_name, month |-> month_name,
     day |-> day, suffix |-> suffix]

OrdinalSuffixMutant(day) ==
    IF day % 10 = 1 THEN "st" ELSE IF day % 10 = 2 THEN "nd"
    ELSE IF day % 10 = 3 THEN "rd" ELSE "th"

\* suffix
OrdinalSuffix(day) ==
    IF 11 <= day /\ day <= 13 THEN "th"
    ELSE IF day % 10 = 1 THEN "st"
    ELSE IF day % 10 = 2 THEN "nd"
    ELSE IF day % 10 = 3 THEN "rd"
    ELSE "th"

\* add_ordinal_suffix(date); NaT stands for None. The text is
\* strftime("%A, %B {day}{suffix}"), kept as its parts.
add_ordinal_suffix(date) ==
    IF date = NaT THEN Formatted("Unknown Date", "", "", 0, "")
    ELSE LET day == Civil(date).day
         IN  Formatted("", WEEKDAYS[weekday(date) + 1], MONTHS[Civil(date).month],
                       day, OrdinalSuffix(day))

InitOrdinal ==
    /\ pc = "ordinal"
    /\ \E date \in (0..MaxOrdinalDate) \cup {NaT} : args = [date |-> date]
    /\ frame = <<>>
    /\ ret = <<>>
    /\ hist = <<>>
    /\ NoConfig

\* A call of add_ordinal_suffix(date).
FormatOrdinal ==
    /\ pc = "ordinal"
    /\ Returned("ordinal_done", add_ordinal_suffix(args.date))

NextOrdinal == FormatOrdinal

SpecOrdinal == InitOrdinal /\ [][NextOrdinal]_vars

-----------------------------------------------------------------------------
(* The recap on many reference dates, over tables of at most one row.      *)

\* Strings strptime accepts: a Friday, and a Sunday written without zeros.
GoodStrings ==
    {<<"0","9","-","0","5","-","2","0","2","5">>,
     <<"9","-","7","-","2","0","2","5">>}

\* Strings strptime rejects: slashes, a day the month does not have, a
\* two-digit year, the empty string passed as text.
BadStrings ==
    {<<"9","/","5","/","2","0","2","5">>,
     <<"0","2","-","3","0","-","2","0","2","5">>,
     <<"0","9","-","0","5","-","2","5">>,
     <<"F","r","i","d","a","y">>}

ReferenceInputs ==
    {[str |-> NoVal, dt |-> d] : d \in 0..MaxReference}
    \cup {[str |-> t, dt |-> NaT] : t \in GoodStrings \cup BadStrings}

InitFridayDate ==
    /\ pc = "friday"
    /\ \E df \in SeqsUpTo(FridayRow, 1), fd \in ReferenceInputs :
          args = [df |-> df, track |-> TrackDA, friday_str |-> fd.str,
                  friday_dt |-> fd.dt, section |-> NoVal]
    /\ frame = <<>>
    /\ ret = <<>>
    /\ hist = <<>>
    /\ PROJECT_DUE_DATES = <<>>
    /\ MILESTONE_DUE_DAYS = FridayPolicy
    /\ LAB_TITLE_NORMALIZATION = <<>>

SpecFridayDate == InitFridayDate /\ [][NextFriday]_vars

-----------------------------------------------------------------------------
(* The reminders and the recap over tables with holiday-like rows.         *)

Text_HolidayLower == <<"h","o","l","i","d","a","y">>
Text_HolidayDataLab ==
    <<"H","o","l","i","d","a","y"," ","D","a","t","a"," ","L","a","b">>
Text_Review == <<"R","e","v","i","e","w">>
Text_NoLiveLabToday ==
    <<"N","o"," ","L","i","v","e","L","a","b"," ","t","o","d","a","y">>

HolidayCells ==
    {Cells(<<"1">>, Text_Intro, NoVal, Text_VideoA, NoVal),
     Cells(<<"2">>, Text_HolidayLower, NoVal, NoVal, NoVal),
     Cells(<<"3">>, Text_HolidayDataLab, NoVal, Text_VideoB, NoVal),
     Cells(<<"4">>, Text_Review, Text_NoLiveLabToday, NoVal, NoVal)}

\* Wednesday of the first week, Monday and Wednesday of the second.
HolidayDates == {2, 7, 9}
HolidayRows == {RowOn(d, c) : d \in HolidayDates, c \in HolidayCells}

\* Either function is about to be called on the table; the recap on the
\* Friday of the first week.
InitHoliday ==
    /\ pc \in {"reminders", "friday"}
    /\ \E df \in SeqsUpTo(HolidayRows, MaxSchedRows) :
          args = [df |-> df, track |-> TrackDA, friday_str |-> NoVal,
                  friday_dt |-> 4, section |-> Section1A]
    /\ frame = <<>>
    /\ ret = <<>>
    /\ hist = <<>>
    /\ PROJECT_DUE_DATES = <<>>
    /\ MILESTONE_DUE_DAYS = FridayPolicy
    /\ LAB_TITLE_NORMALIZATION = <<>>

NextHoliday == RenderReminders \/ FridayMessages

SpecHoliday == InitHoliday /\ [][NextHoliday]_vars

-----------------------------------------------------------------------------
(* Claims about the segmenter.                                             *)

\* The session index the walk compares row k against: that of the last row
\* before k whose index is present.
PreviousIndex(out, k) ==
    LET present == {j \in 1..(k - 1) : out[j].ll_index # NaN}
    IN  IF present = {} THEN None ELSE {out[Max(present)].ll_index}

PartBefore(out, k) == IF k = 1 THEN 1 ELSE out[k - 1].part

IsReset(out, k) ==
    /\ PreviousIndex(out, k) # None
    /\ out[k].ll_index # NaN
    /\ \A p \in PreviousIndex(out, k) : out[k].ll_index < p

\* C1: the rows are walked in (date, original index) order, absent dates
\* last; a row's part is the part before it plus one exactly when the last
\* present session index before it exists, the row's own index is present
\* and strictly smaller, and the part before it is below max_parts; so a row
\* without an index keeps the part, and at max_parts every reset is ignored.
C1_WalkRule ==
    pc = "split_done" =>
        LET out == frame
            n == Len(out)
        IN  /\ n = Len(args.df)
            /\ \A k \in 1..n :
                  /\ out[k]._orig_order \in 0..(n - 1)
                  /\ out[k].row = args.df[out[k]._orig_order + 1]
                  /\ out[k]._dt = out[k].row.date
            /\ \A i, j \in 1..n : i < j =>
                  \/ out[i]._dt # NaT /\ out[j]._dt # NaT /\ out[i]._dt < out[j]._dt
                  \/ out[i]._dt # NaT /\ out[j]._dt = NaT
                  \/ out[i]._dt = out[j]._dt /\ out[i]._orig_order < out[j]._orig_order
            /\ \A k \in 1..n :
                  /\ out[k].part =
                        IF IsReset(out, k) /\ PartBefore(out, k) < args.max_parts
                        THEN PartBefore(out, k) + 1 ELSE PartBefore(out, k)
                  /\ out[k].ll_index = NaN => out[k].part = PartBefore(out, k)
                  /\ PartBefore(out, k) = args.max_parts =>
                        out[k].part = args.max_parts

\* A reset across a row without an index moved to part 2, and a later reset
\* at max_parts = 2 was ignored.
C1_Witness ==
    /\ pc = "split_done"
    /\ args.max_parts = 2
    /\ \E k, m \in 2..Len(frame) :
          /\ k < m
          /\ frame[k - 1].ll_index = NaN
          /\ IsReset(frame, k) /\ frame[k].part = 2 /\ PartBefore(frame, k) = 1
          /\ IsReset(frame, m) /\ frame[m].part = 2

RECURSIVE Flatten(_)
Flatten(buckets) ==
    IF buckets = <<>> THEN <<>> ELSE Head(buckets) \o Flatten(Tail(buckets))

Count(seq, r) == Cardinality({i \in 1..Len(seq) : seq[i] = r})

\* C2: for every max_parts the returned buckets together hold every input
\* row exactly once; indices 1,2,1,3,1,2 with max_parts = 3 split three ways.
C2_EveryRowInOneBucket ==
    pc = "split_done" =>
        /\ Len(Flatten(ret)) = Len(args.df)
        /\ \A i \in 1..Len(args.df) :
              Count(Flatten(ret), args.df[i]) = Count(args.df, args.df[i])
        /\ (args.df = ExampleThreeWay /\ args.max_parts = 3) =>
              ret = <<SubSeq(ExampleThreeWay, 1, 2), SubSeq(ExampleThreeWay, 3, 4),
                      SubSeq(ExampleThreeWay, 5, 6)>>

IsPermutationOf(a, b) ==
    /\ Len(a) = Len(b)
    /\ \A i \in 1..Len(a) : Count(a, a[i]) = Count(b, a[i])

\* C3: with pairwise distinct dates, every reordering of the input rows gives
\* the result of the first call; 1,2,3,1,2,3 on ascending dates with
\* max_parts = 2 gives the three earliest and the three latest rows.
C3_OrderIndependent ==
    pc = "split_done" =>
        /\ hist = <<ret>>
        /\ (IsPermutationOf(args.df, ExampleTwoWay) /\ args.max_parts = 2) =>
              ret = <<SubSeq(ExampleTwoWay, 1, 3), SubSeq(ExampleTwoWay, 4, 6)>>

\* The example's rows arrived latest first and were split.
C3_Witness ==
    /\ pc = "split_done"
    /\ args.max_parts = 2
    /\ args.df = [i \in 1..6 |-> ExampleTwoWay[7 - i]]
    /\ ret[2] # <<>>

-----------------------------------------------------------------------------
(* Claims about the due-date resolvers.                                    *)

Resolved == pc \in {"friday_last_done", "friday_next_done", "end_done"}

Normalized(text) == lower(strip(text))

\* The entries of the override table whose key equals
\* ("<track> Section <section>", milestone_title) after trimming and
\* lower-casing both sides.
OverrideHits ==
    {i \in 1..Len(PROJECT_DUE_DATES) :
        /\ args.milestone_title # NoVal
        /\ Normalized(PROJECT_DUE_DATES[i].section)
              = Normalized(SectionFull(args.track, args.section_code))
        /\ Normalized(PROJECT_DUE_DATES[i].title) = Normalized(args.milestone_title)}

PolicyOfSection == get_milestone_due_days(args.section_code)

\* C4: when an entry of the override table matches the section and the
\* milestone title after trimming and lower-casing, each of the three
\* resolutions (last-session milestone, look-ahead milestone, end of
\* session) returns the override date (of the first such entry in table
\* order), whatever the base date and the due-days policy.
C4_OverrideWins ==
    (Resolved /\ OverrideHits # {}) =>
        /\ ret = PROJECT_DUE_DATES[Min(OverrideHits)].due
        /\ \E i \in OverrideHits : ret = PROJECT_DUE_DATES[i].due
        /\ (\A i, j \in OverrideHits :
                PROJECT_DUE_DATES[i].due = PROJECT_DUE_DATES[j].due)
              => \A i \in OverrideHits : ret = PROJECT_DUE_DATES[i].due

\* The end-of-session resolver returned an override that is earlier than the
\* base date, found under a key spelled differently, with a policy that
\* would have computed a date.
C4_Witness ==
    /\ pc = "end_done"
    /\ OverrideHits # {}
    /\ PROJECT_DUE_DATES[Min(OverrideHits)].title # args.milestone_title
    /\ PolicyOfSection # <<>>
    /\ args.base_date # NaT
    /\ ret < args.base_date

\* C5 as stated: with an absent milestone title or an absent base date
\* _compute_due_date returns absent, whatever the override table holds.
C5_AbsentInputsGiveAbsent ==
    (pc = "end_done" /\ (_is_empty(args.milestone_title) \/ args.base_date = NaT))
        => ret = NaT

\* C5 as amended: an absent milestone title gives absent; an absent base
\* date gives absent unless an override matches the section and milestone,
\* and then the override date is returned.
C5_AbsentUnlessOverride ==
    pc = "end_done" =>
        /\ _is_empty(args.milestone_title) => ret = NaT
        /\ (args.base_date = NaT /\ OverrideHits = {}) => ret = NaT
        /\ (args.base_date = NaT /\ OverrideHits # {}) =>
              ret = PROJECT_DUE_DATES[Min(OverrideHits)].due

\* An absent base date with a matching override and a non-empty policy.
C5_Witness ==
    /\ pc = "end_done"
    /\ args.base_date = NaT
    /\ OverrideHits # {}
    /\ PolicyOfSection # <<>>
    /\ ret # NaT

\* The dates from the base date to six days later whose weekday is listed.
ListedDays(base_date, days) ==
    {d \in base_date..(base_date + DaysPerWeek - 1) :
        \E k \in 1..Len(days) : days[k] = WEEKDAYS[weekday(d) + 1]}

\* C6: with no matching override, a present base date and a present
\* milestone title, the resolved date is the earliest date in
\* base .. base + 6 whose weekday is in the section's list: the base date
\* itself when its weekday is listed, four days later for ["Friday"] and a
\* Monday base, absent for an empty or unknown list.
C6_EarliestListedWeekday ==
    (/\ Resolved
     /\ OverrideHits = {}
     /\ args.base_date # NaT
     /\ ~_is_empty(args.milestone_title)) =>
        LET listed == ListedDays(args.base_date, PolicyOfSection)
        IN  /\ ret = IF listed = {} THEN NaT ELSE Min(listed)
            /\ args.base_date \in listed => ret = args.base_date
            /\ (PolicyOfSection = <<"Friday">> /\ weekday(args.base_date) = 0)
                  => ret = args.base_date + 4
            /\ PolicyOfSection = <<>> => ret = NaT

\* The list names Friday before Monday, the base date is a Saturday, and the
\* look-ahead resolution returned the Monday two days later.
C6_Witness ==
    /\ pc = "friday_next_done"
    /\ OverrideHits = {}
    /\ PolicyOfSection = <<"Friday", "Monday">>
    /\ weekday(args.base_date) = 5
    /\ ret = args.base_date + 2

-----------------------------------------------------------------------------
(* Claims about the weekly digest.                                         *)

\* The rows of the table dated in [week_start, week_start + 7 days).
RowsOfWeek ==
    {i \in 1..Len(args.df) :
        /\ args.df[i].date # NaT
        /\ args.week_monday <= args.df[i].date
        /\ args.df[i].date < args.week_monday + DaysPerWeek}

LabLines == {k \in 1..Len(ret) : ret[k].kind = "lab"}

\* The group key of row i of the table: its __title in w.
TitleInW(i) == frame[CHOOSE k \in 1..Len(frame) : frame[k].pos = i].__title

\* The lab line of the group row i is in.
LineOf(i) == {k \in LabLines : ret[k].title = TitleInW(i)}

\* Line k lists the weekday of row i with the instructor of row i.
Lists(k, i) ==
    \E m \in 1..Len(ret[k].schedule) :
        /\ ret[k].schedule[m].day = WEEKDAY_ABBR[weekday(args.df[i].date) + 1]
        /\ \E n \in 1..Len(ret[k].schedule[m].instrs) :
              ret[k].schedule[m].instrs[n] = Instructor(args.df[i].section)

\* Every row of the week is in exactly one lab line, which lists it, and
\* every lab line is the line of a row of the week.
OneLinePerGroup ==
    /\ \A i \in RowsOfWeek :
          Cardinality(LineOf(i)) = 1 /\ \A k \in LineOf(i) : Lists(k, i)
    /\ \A k \in LabLines :
          /\ \E i \in RowsOfWeek : k \in LineOf(i)
          /\ \A m \in 1..Len(ret[k].schedule) :
              \A n \in 1..Len(ret[k].schedule[m].instrs) :
                \E i \in RowsOfWeek :
                    /\ k \in LineOf(i)
                    /\ ret[k].schedule[m].day
                          = WEEKDAY_ABBR[weekday(args.df[i].date) + 1]
                    /\ ret[k].schedule[m].instrs[n] = Instructor(args.df[i].section)

\* The alias entries whose key equals the trimmed title ignoring case.
AliasOf(title) ==
    {a \in 1..Len(LAB_TITLE_NORMALIZATION) :
        lower(strip(title)) = lower(LAB_TITLE_NORMALIZATION[a].k)}

SameAlias(t, u) ==
    /\ AliasOf(t) # {}
    /\ AliasOf(u) # {}
    /\ LAB_TITLE_NORMALIZATION[Min(AliasOf(t))].v
          = LAB_TITLE_NORMALIZATION[Min(AliasOf(u))].v

DayRank(day) == CHOOSE r \in 1..Len(WEEKDAY_ABBR) : WEEKDAY_ABBR[r] = day

\* Weekdays in Monday-to-Sunday order, each instructor once per weekday.
WellFormedSchedule(schedule) ==
    /\ \A m, n \in 1..Len(schedule) :
          m < n => DayRank(schedule[m].day) < DayRank(schedule[n].day)
    /\ \A m \in 1..Len(schedule) :
          /\ schedule[m].instrs # <<>>
          /\ \A a, b \in 1..Len(schedule[m].instrs) :
                a # b => schedule[m].instrs[a] # schedule[m].instrs[b]

MonWedSchedule ==
    <<[day |-> "Mon", instrs |-> <<"@Sarah Cole">>],
      [day |-> "Wed", instrs |-> <<"@Katie">>]>>

\* A Monday row of section 1A and a Wednesday row of section 1B.
MonWedTable(title_mon, title_wed) ==
    <<[date |-> args.week_monday, livelab_title |-> title_mon,
       section |-> SectionFull(TrackDA, Section1A)],
      [date |-> args.week_monday + 2, livelab_title |-> title_wed,
       section |-> SectionFull(TrackDA, <<"1","B">>)]>>

\* C7 as stated: rows of the week whose titles are equal after trimming and
\* ignoring case are in one group; "Lab A" on Monday and "lab a " on
\* Wednesday give exactly one group, "*Mon - @X*, *Wed - @Y*".
C7_GroupedIgnoringCase ==
    pc = "digest_done" =>
        /\ \A i, j \in RowsOfWeek :
              lower(strip(args.df[i].livelab_title))
                  = lower(strip(args.df[j].livelab_title))
                => LineOf(i) = LineOf(j)
        /\ args.df = MonWedTable(LabA, <<"l","a","b"," ","a"," ">>) =>
              /\ Cardinality(LabLines) = 1
              /\ \A k \in LabLines : ret[k].schedule = MonWedSchedule
        /\ \A k \in LabLines : WellFormedSchedule(ret[k].schedule)

\* C7 as amended: rows of the week whose titles are equal after trimming
\* whitespace are in one group, and so are rows whose trimmed titles the
\* alias table maps, ignoring case, to one display title; titles that
\* differ after trimming and match no alias are separate groups, also when
\* they differ only in case.  "Lab A" on Monday and " Lab A" on Wednesday
\* give one group, Mon then Wed; weekdays are in Monday-to-Sunday order, an
\* instructor once per weekday.
C7_GroupedByTrimmedTitle ==
    pc = "digest_done" =>
        /\ OneLinePerGroup
        /\ \A i, j \in RowsOfWeek :
              LET t == args.df[i].livelab_title
                  u == args.df[j].livelab_title
              IN  /\ strip(t) = strip(u) => LineOf(i) = LineOf(j)
                  /\ SameAlias(t, u) => LineOf(i) = LineOf(j)
                  /\ (AliasOf(t) = {} /\ AliasOf(u) = {} /\ strip(t) # strip(u))
                        => LineOf(i) # LineOf(j)
        /\ args.df = MonWedTable(LabA, <<" ","L","a","b"," ","A">>) =>
              /\ Cardinality(LabLines) = 1
              /\ \A k \in LabLines :
                    ret[k].title = LabA /\ ret[k].schedule = MonWedSchedule
        /\ \A k \in LabLines : WellFormedSchedule(ret[k].schedule)

\* The shipped (empty) alias table: "Lab A" on Monday and " Lab A" on
\* Wednesday, with different instructors, were put in one group.
C7_Witness ==
    /\ pc = "digest_done"
    /\ LAB_TITLE_NORMALIZATION = <<>>
    /\ args.df = MonWedTable(LabA, <<" ","L","a","b"," ","A">>)
    /\ Cardinality(LabLines) = 1

\* C8: the digest is built from exactly the rows dated in
\* [week_start, week_start + 7 days): a row dated week_start is in, a row
\* dated week_start + 7 days or without a date is out; with no such row,
\* also for an empty table, the message is the one-line notice.
C8_RowsOfTheWeek ==
    pc = "digest_done" =>
        /\ {frame[k].pos : k \in 1..Len(frame)} = RowsOfWeek
        /\ Len(frame) = Cardinality(RowsOfWeek)
        /\ \A k \in 1..Len(frame) : frame[k].__date_dt = args.df[frame[k].pos].date
        /\ \A i \in 1..Len(args.df) :
              /\ args.df[i].date = args.week_monday => i \in RowsOfWeek
              /\ args.df[i].date = args.week_monday + DaysPerWeek => i \notin RowsOfWeek
              /\ args.df[i].date = NaT => i \notin RowsOfWeek
        /\ OneLinePerGroup
        /\ ret # <<>>
        /\ RowsOfWeek = {} <=> ret = <<Line("no_labs_found")>>
        /\ RowsOfWeek # {} => LabLines # {}

\* Rows dated a week after week_start and without a date, and no other:
\* the notice was returned.
C8_Witness ==
    /\ pc = "digest_done"
    /\ \E i, j \in 1..Len(args.df) :
          /\ args.df[i].date = args.week_monday + DaysPerWeek
          /\ args.df[j].date = NaT
    /\ ret = <<Line("no_labs_found")>>

-----------------------------------------------------------------------------
(* Claims about the end-of-session reminders.                              *)

HolidayRow(row) ==
    \/ Contains(lower(str(row.livelab_title)), lower(Text_Holiday))
    \/ Contains(lower(str(row.notes)), Text_NoLivelab)

\* The positions of df that are sessions: no holiday, and titled.
Sessions(df) ==
    {i \in 1..Len(df) : ~HolidayRow(df[i]) /\ ~_is_empty(df[i].livelab_title)}

\* `rows` holds exactly the rows of df at the positions `idx`.
HoldsExactly(rows, df, idx) ==
    /\ Len(rows) = Cardinality(idx)
    /\ \A i \in idx :
          Cardinality({k \in 1..Len(rows) : rows[k] = df[i]})
              = Cardinality({j \in idx : df[j] = df[i]})

VideoKinds == {"watch_before_next", "head_start_video", "end_of_schedule"}
IsVideoBullet(b) == b.kind \in VideoKinds

LaterWithVideo(rows, k) ==
    {j \in (k + 2)..Len(rows) : ~_is_empty(rows[j].videos_watch_by)}

IntroHolidayDeepDive ==
    <<RowOn(0, Cells(<<"1">>, Text_Intro, NoVal, Text_VideoA, NoVal)),
      RowOn(2, Cells(<<"2">>, Text_Holiday, Text_NoLivelab, NoVal, NoVal)),
      RowOn(4, Cells(<<"3">>, Text_DeepDive, NoVal, Text_VideoB, Project1))>>

\* C9: the reminders run over the non-holiday titled rows in date order, one
\* block per row; the block of a row that has a next row tells to watch the
\* next row's video before that row's date, or, when the next row has no
\* video, the video of the first later row that has one as a head start; the
\* end-of-schedule notice is shown exactly in the block of the last row. For
\* Intro (Monday, Video A), Holiday (Wednesday, "no livelab"), Deep Dive
\* (Friday, Video B) the block of Intro tells to watch Video B before Deep
\* Dive on Friday.
C9_NextSessionVideo ==
    pc = "reminders_done" =>
        /\ HoldsExactly(frame, args.df, Sessions(args.df))
        /\ \A k \in 1..(Len(frame) - 1) : frame[k].date <= frame[k + 1].date
        /\ frame # <<>> => Len(ret) = Len(frame)
        /\ frame # <<>> => \A k \in 1..Len(frame) :
              LET video == SelectSeq(ret[k].bullets, IsVideoBullet)
              IN  /\ ret[k].title = frame[k].livelab_title
                  /\ ret[k].date = frame[k].date
                  /\ (\E b \in 1..Len(video) : video[b].kind = "end_of_schedule")
                        <=> k = Len(frame)
                  /\ k < Len(frame) =>
                        IF ~_is_empty(frame[k + 1].videos_watch_by)
                        THEN /\ Len(video) = 1
                             /\ video[1].kind = "watch_before_next"
                             /\ strip(video[1].name) = strip(frame[k + 1].videos_watch_by)
                             /\ video[1].title = frame[k + 1].livelab_title
                             /\ video[1].date = frame[k + 1].date
                        ELSE IF LaterWithVideo(frame, k) # {}
                        THEN LET j == Min(LaterWithVideo(frame, k))
                             IN  /\ Len(video) = 1
                                 /\ video[1].kind = "head_start_video"
                                 /\ strip(video[1].name) = strip(frame[j].videos_watch_by)
                                 /\ video[1].title = frame[j].livelab_title
                                 /\ video[1].date = frame[j].date
                        ELSE video = <<>>
        /\ args.df = IntroHolidayDeepDive =>
              /\ ret[1].title = Text_Intro
              /\ ret[1].bullets[1] = Element("watch_before_next", Text_VideoB, Text_DeepDive, 4)

C9_Witness ==
    /\ pc = "reminders_done"
    /\ args.df = IntroHolidayDeepDive
    /\ Len(ret) = 2
    /\ ret[1].bullets[1] = Element("watch_before_next", Text_VideoB, Text_DeepDive, 4)
    /\ ret[2].bullets[1].kind = "end_of_schedule"

-----------------------------------------------------------------------------
(* Claims about the order of rows with equal dates.                        *)

\* The rows of section `sec` dated on or before `target`, and after it.
DatedUpTo(df, sec, target) ==
    {i \in 1..Len(df) : /\ df[i].track = args.track /\ df[i].wave_section = sec
                        /\ df[i].date # NaT /\ df[i].date <= target}

DatedAfter(df, sec, target) ==
    {i \in 1..Len(df) : /\ df[i].track = args.track /\ df[i].wave_section = sec
                        /\ df[i].date # NaT /\ df[i].date > target}

\* Of the rows at `idx`, the first in input order among the latest, and
\* among the earliest.
FirstOfLatest(df, idx) ==
    Min({i \in idx : \A j \in idx : df[j].date <= df[i].date})

FirstOfEarliest(df, idx) ==
    Min({i \in idx : \A j \in idx : df[i].date <= df[j].date})

IsHolidayTitle(title) == lower(strip(str(title))) = lower(Text_Holiday)

-----------------------------------------------------------------------------
(* Claims about the ordinal suffix.                                        *)

\* C11: the text of a date names its day of the month, a day in 1..31, with
\* "st" exactly for 1, 21, 31, "nd" exactly for 2, 22, "rd" exactly for 3, 23
\* and "th" for every other day, 11, 12 and 13 included; an absent date gives
\* the literal "Unknown Date".
C11_OrdinalSuffix ==
    pc = "ordinal_done" =>
        IF args.date = NaT THEN ret.literal = "Unknown Date"
        ELSE /\ ret.literal = ""
             /\ ret.day \in 1..31
             /\ \E y \in {2025}, m \in 1..12 :
                   /\ MONTHS[m] = ret.month
                   /\ toordinal(y, m, ret.day) - Epoch = args.date
             /\ ret.suffix = "st" <=> ret.day \in {1, 21, 31}
             /\ ret.suffix = "nd" <=> ret.day \in {2, 22}
             /\ ret.suffix = "rd" <=> ret.day \in {3, 23}
             /\ ret.suffix = "th" <=> ret.day \notin {1, 21, 31, 2, 22, 3, 23}

\* The twelfth of September and the thirty-first of October.
C11_Witness ==
    /\ pc = "ordinal_done"
    /\ \/ args.date = 11 /\ ret.day = 12 /\ ret.suffix = "th"
       \/ args.date = MaxOrdinalDate /\ ret.day = 31 /\ ret.suffix = "st"

-----------------------------------------------------------------------------
(* Claims about the recap's reference date.                                *)

\* The string, if the reference is one, is not a date in MM-DD-YYYY.
Malformed == args.friday_str # NoVal /\ strptime(args.friday_str) = NaT

\* What the recap emits per section: a block or a missing-data report.
PerSection(k) == ret[k].kind \in {"expander", "error_no_past"}

NoticeKinds == {"warning_invalid_date", "warning_not_friday", "info_adjusted"}

SectionsOf(df) == {df[i].wave_section : i \in {j \in 1..Len(df) : df[j].track = args.track}}

\* C12: on a reference string that cannot be parsed the recap issues a
\* validation notice and still goes on with an adjusted Friday, producing
\* the blocks of the sections.
C12_MalformedStillProduces ==
    (pc = "friday_done" /\ Malformed) =>
        /\ \E k \in 1..Len(ret) : ret[k].kind \in NoticeKinds
        /\ \A sec \in SectionsOf(args.df) :
              \E k \in 1..Len(ret) : PerSection(k) /\ ret[k].sec = sec

\* C12 as the code has it: on a reference string that cannot be parsed the
\* recap issues the validation notice and nothing else; on a reference that
\* is a date, the sections are processed.
C12_MalformedAborts ==
    pc = "friday_done" =>
        IF Malformed
        THEN /\ Len(ret) = 1
             /\ ret[1].kind = "warning_invalid_date"
        ELSE /\ \A k \in 1..Len(ret) : ret[k].kind # "warning_invalid_date"
             /\ \A sec \in SectionsOf(args.df) :
                   \E k \in 1..Len(ret) : PerSection(k) /\ ret[k].sec = sec

C12_Witness ==
    /\ pc = "friday_done"
    /\ Malformed
    /\ \E i \in 1..Len(args.df) : args.df[i].date = 4
    /\ ret = <<Emitted("warning_invalid_date", NoVal, NaT, <<>>)>>

\* The reference date, when it is one.
Reference ==
    IF args.friday_str # NoVal THEN strptime(args.friday_str) ELSE args.friday_dt

\* The latest Friday on or before day r; day 4 is a Friday.
LatestFriday(r) == CHOOSE t \in (r - 6)..r : (t - 4) % 7 = 0

\* C15: the target of the recap is the latest Friday on or before the
\* reference date: a Friday is used unchanged and without a notice, any other
\* day is moved back by 1 to 6 days and announced; the blocks are written
\* for the target and the rows are split at it.
C15_TargetIsLatestFriday ==
    (pc = "friday_done" /\ Reference # NaT) =>
        LET target == LatestFriday(Reference)
        IN  /\ target <= Reference /\ Reference - target <= 6
            /\ (Reference - 4) % 7 = 0 => target = Reference
            /\ (\E k \in 1..Len(ret) : ret[k].kind \in NoticeKinds)
                  <=> target # Reference
            /\ \A k \in 1..Len(ret) :
                  /\ ret[k].kind = "warning_not_friday" => ret[k].date = Reference
                  /\ ret[k].kind \in {"info_adjusted", "expander"} => ret[k].date = target
            /\ \A k \in 1..Len(frame) :
                  /\ \A a \in 1..Len(frame[k].past) :
                        args.df[frame[k].past[a]].date <= target
                  /\ \A a \in 1..Len(frame[k].upcoming) :
                        args.df[frame[k].upcoming[a]].date > target

\* A Sunday moved back two days, with a block for a row of the Friday.
C15_Witness ==
    /\ pc = "friday_done"
    /\ args.friday_dt = 6
    /\ \E k \in 1..Len(ret) : ret[k].kind = "info_adjusted" /\ ret[k].date = 4
    /\ \E k \in 1..Len(ret) :
          /\ ret[k].kind = "expander" /\ ret[k].date = 4
          /\ ret[k].lines[1].date = 4

-----------------------------------------------------------------------------
(* Claims about the holiday predicate.                                     *)

\* The title equals "holiday", or the notes contain "no livelab", both
\* without regard to case.
Placeholder(row) ==
    \/ lower(str(row.livelab_title)) = Text_HolidayLower
    \/ Contains(lower(str(row.notes)), Text_NoLivelab)

\* C14: one predicate decides everywhere what a holiday row is, the title
\* being "holiday" or the notes containing "no livelab": the reminders run
\* over exactly the titled rows that are no such row, and the recap writes
\* the holiday line instead of the next-session line exactly when the next
\* row is such a row.
C14_OneHolidayPredicate ==
    /\ pc = "reminders_done" =>
          HoldsExactly(frame, args.df,
                       {i \in 1..Len(args.df) :
                           ~Placeholder(args.df[i]) /\ ~_is_empty(args.df[i].livelab_title)})
    /\ pc = "friday_done" =>
          \A k \in 1..Len(ret) :
              LET f == CHOOSE f \in {frame[m] : m \in 1..Len(frame)} : f.sec = ret[k].sec
              IN  (ret[k].kind = "expander" /\ f.upcoming # <<>>) =>
                      (ret[k].lines[4].kind = "next_is_holiday"
                          <=> Placeholder(args.df[f.upcoming[1]]))

-----------------------------------------------------------------------------
(* Claims about the blocks of the recap.                                   *)

MilestoneLineKinds == {"milestone_due", "milestone_heads_up", "no_milestones"}
NextLineKinds == {"next_livelab", "next_is_holiday", "no_upcoming_livelabs"}
VideoLineKinds == {"prepare_skillbuilder", "next_skillbuilder", "no_skillbuilders"}

\* C13: every block of the recap has six lines: the sanity check, the
\* greeting, one milestone line, one line about the next session, one line
\* about the videos, the closing; also when the next row is a holiday and
\* when there is no next row.
C13_SixLinesInOrder ==
    pc = "friday_done" =>
        \A k \in 1..Len(ret) : ret[k].kind = "expander" =>
            LET lines == ret[k].lines
            IN  /\ Len(lines) = 6
                /\ lines[1].kind = "sanity_check"
                /\ lines[2].kind = "greeting"
                /\ lines[3].kind \in MilestoneLineKinds
                /\ lines[4].kind \in NextLineKinds
                /\ lines[5].kind \in VideoLineKinds
                /\ lines[6].kind = "closing"

\* The blocks and missing-data reports among what the recap emitted.
IsPerSection(e) == e.kind \in {"expander", "error_no_past"}
PerSectionOutput == SelectSeq(ret, IsPerSection)

\* C16: for every section the dated rows are split at the target Friday into
\* the past, latest first, and the future, earliest first; rows without a
\* date are in neither. The last session is a latest past row, the next
\* session an earliest future row. A section without a past row gets a
\* missing-data report and no block, and the other sections are processed.
C16_PastFutureSplit ==
    (pc = "friday_done" /\ Reference # NaT) =>
        LET target == LatestFriday(Reference)
            out == PerSectionOutput
            df == args.df
        IN  /\ Len(out) = Len(frame)
            /\ {frame[k].sec : k \in 1..Len(frame)} =
                  IF args.section # NoVal THEN {args.section} ELSE SectionsOf(df)
            /\ \A k, m \in 1..Len(frame) : frame[k].sec = frame[m].sec => k = m
            /\ \A k \in 1..Len(frame) :
                  LET past == frame[k].past
                      upcoming == frame[k].upcoming
                      sec == frame[k].sec
                  IN  /\ out[k].sec = sec
                      /\ {past[a] : a \in 1..Len(past)} = DatedUpTo(df, sec, target)
                      /\ {upcoming[a] : a \in 1..Len(upcoming)} = DatedAfter(df, sec, target)
                      /\ Len(past) = Cardinality(DatedUpTo(df, sec, target))
                      /\ Len(upcoming) = Cardinality(DatedAfter(df, sec, target))
                      /\ \A a \in 1..(Len(past) - 1) :
                            df[past[a]].date >= df[past[a + 1]].date
                      /\ \A a \in 1..(Len(upcoming) - 1) :
                            df[upcoming[a]].date <= df[upcoming[a + 1]].date
                      /\ out[k].kind = "error_no_past" <=> DatedUpTo(df, sec, target) = {}
                      /\ out[k].kind = "expander" =>
                            /\ \E i \in DatedUpTo(df, sec, target) :
                                  /\ \A j \in DatedUpTo(df, sec, target) :
                                        df[j].date <= df[i].date
                                  /\ out[k].lines[1] =
                                        Element("sanity_check", df[i].LL_num,
                                                df[i].livelab_title, df[i].date)
                            /\ IF DatedAfter(df, sec, target) = {}
                               THEN out[k].lines[4].kind = "no_upcoming_livelabs"
                               ELSE /\ out[k].lines[4].kind \in {"next_livelab", "next_is_holiday"}
                                    /\ \A j \in DatedAfter(df, sec, target) :
                                          out[k].lines[4].date <= df[j].date

\* A section with only a future row is reported, the section after it gets
\* its block, and a row without a date takes no part.
C16_Witness ==
    /\ pc = "friday_done"
    /\ Len(args.df) = 3
    /\ args.df[3].date = NaT
    /\ Len(PerSectionOutput) = 2
    /\ PerSectionOutput[1].kind = "error_no_past"
    /\ PerSectionOutput[1].sec = Section1B
    /\ PerSectionOutput[2].kind = "expander"
    /\ frame[1].upcoming # <<>>

Present(cell) == cell # NoVal /\ cell # <<>>

\* C17: the milestone line of a block is the due-now line of the last
\* session's milestone exactly when the milestone is present, its due date
\* resolves, and there is no next session or the due date is on or before the
\* next session's date; otherwise it is the look-ahead line of the first
\* future row that carries a milestone, due from that row's date, if that due
\* date resolves; otherwise the "no milestones" line.
C17_MilestoneLine ==
    pc = "friday_done" =>
        \A k \in 1..Len(ret) : ret[k].kind = "expander" =>
            LET df == args.df
                f == CHOOSE f \in {frame[m] : m \in 1..Len(frame)} : f.sec = ret[k].sec
                last == df[f.past[1]]
                due == FridayMilestoneDueDate(last.assignment_due_after, last.date,
                                              f.sec, args.track)
                dueNow == /\ Present(last.assignment_due_after)
                          /\ due # NaT
                          /\ (f.upcoming = <<>> \/ due <= df[f.upcoming[1]].date)
                carrying == {a \in 1..Len(f.upcoming) :
                                Present(df[f.upcoming[a]].assignment_due_after)}
                line == ret[k].lines[3]
            IN  /\ line.kind = "milestone_due" <=> dueNow
                /\ dueNow => line.name = last.assignment_due_after /\ line.date = due
                /\ (~dueNow /\ carrying # {}) =>
                      LET r == df[f.upcoming[Min(carrying)]]
                          ahead == FridayNextMilestoneDueDate(r.assignment_due_after,
                                                              r.date, f.sec, args.track)
                      IN  IF ahead # NaT
                          THEN /\ line.kind = "milestone_heads_up"
                               /\ line.name = r.assignment_due_after
                               /\ line.date = ahead
                               /\ r.date > ret[k].date
                          ELSE line.kind = "no_milestones"
                /\ (~dueNow /\ carrying = {}) => line.kind = "no_milestones"

\* The last session's milestone is due on the Wednesday after the next
\* session, so the block looks ahead to the next session's milestone.
C17_Witness ==
    /\ pc = "friday_done"
    /\ \E k \in 1..Len(ret) :
          /\ ret[k].kind = "expander"
          /\ ret[k].lines[1].title = Text_DeepDive
          /\ ret[k].lines[1].date = 4
          /\ ret[k].lines[4].date = 7
          /\ ret[k].lines[3] = Element("milestone_heads_up", Project1, <<>>, 9)

-----------------------------------------------------------------------------
(* Claims about the milestone bullet of the reminders.                     *)

MilestoneKinds == {"milestone_due", "head_start_milestone"}
IsMilestoneBullet(b) == b.kind \in MilestoneKinds

LaterWithMilestone(rows, k) ==
    {j \in (k + 1)..Len(rows) : ~_is_empty(rows[j].assignment_due_after)}

DueOf(row) ==
    _compute_due_date(row.date, row.wave_section, row.assignment_due_after, row.track)

\* C18: the reminders have one block per non-holiday titled row, in date
\* order. The milestone bullet of a block names the row's own milestone when
\* its due date resolves and is on or before the next session's date, or
\* there is no next session; otherwise it is a head start on the milestone of
\* the first later row that carries one, due from that row's date; otherwise
\* there is none. No block mentions the milestone of an earlier row.
C18_MilestoneBullet ==
    (pc = "reminders_done" /\ frame # <<>>) =>
        /\ HoldsExactly(frame, args.df, Sessions(args.df))
        /\ Len(ret) = Len(frame)
        /\ \A k \in 1..(Len(frame) - 1) : frame[k].date <= frame[k + 1].date
        /\ \A k \in 1..Len(frame) :
              LET row == frame[k]
                  bullet == SelectSeq(ret[k].bullets, IsMilestoneBullet)
                  due == IF _is_empty(row.assignment_due_after) THEN NaT ELSE DueOf(row)
                  own == due # NaT /\ (k = Len(frame) \/ due <= frame[k + 1].date)
                  later == LaterWithMilestone(frame, k)
              IN  /\ ret[k].kind = "expander"
                  /\ ret[k].LL_num = row.LL_num /\ ret[k].title = row.livelab_title
                  /\ IF own
                     THEN bullet = <<Element("milestone_due", row.assignment_due_after,
                                             <<>>, due)>>
                     ELSE IF later # {} /\ DueOf(frame[Min(later)]) # NaT
                     THEN bullet = <<Element("head_start_milestone",
                                             frame[Min(later)].assignment_due_after,
                                             <<>>, DueOf(frame[Min(later)]))>>
                     ELSE bullet = <<>>
                  /\ \A b \in 1..Len(bullet) :
                        \E j \in k..Len(frame) :
                            /\ bullet[b].name = frame[j].assignment_due_after
                            /\ bullet[b].date = DueOf(frame[j])

\* P1 of Deep Dive on Monday is due on Thursday, after Intro on Wednesday:
\* the block of Deep Dive gives a head start on P3 of Lab on Friday, due on the
\* Thursday after.
C18_Witness ==
    /\ pc = "reminders_done"
    /\ Len(frame) = 3
    /\ frame[1].livelab_title = Text_DeepDive /\ frame[1].date = 0
    /\ frame[2].livelab_title = Text_Intro /\ frame[2].date = 2
    /\ frame[3].livelab_title = Text_Lab /\ frame[3].date = 4
    /\ SelectSeq(ret[1].bullets, IsMilestoneBullet)
          = <<Element("head_start_milestone", Project3, <<>>, 10)>>
    /\ SelectSeq(ret[3].bullets, IsMilestoneBullet)
          = <<Element("milestone_due", Project3, <<>>, 10)>>

=============================================================================
